---- MODULE Spec2Model ----
(***************************************************************************)
(* Dashboard pipeline of the investing app: the article_summaries store,   *)
(* the two dashboard GET handlers (raw SQL and ORM variants), the single   *)
(* summary GET handler, and the dashboard component's client-side filter   *)
(* and pagination.                                                         *)
(*                                                                         *)
(* Text is a sequence of one-character strings, so that toLowerCase,       *)
(* join(' ') and includes() are computed character by character.  The      *)
(* JSON text of the five array-valued columns is a TLA+ string, decoded by *)
(* the table JSONParse.                                                    *)
(***************************************************************************)
EXTENDS Integers, Sequences, FiniteSets, TLC

VARIABLES
    store,          \* article_summaries rows, in insertion (id) order
    req,            \* the last request served
    resp,           \* the response to it
    dashboardData,  \* component state: <<>> (null) or <<data>>
    loading,        \* component state: the fetch has not settled yet
    filters,        \* component state: the three filter values
    currentPage,    \* component state: the 1-based page
    pageAtChange,   \* history: the page shown when the filters were last changed,
                    \* 0 before any change and after a navigation
    process,        \* a Node process that evaluates the database-client module:
                    \* its environment, global object, tables and exit
    hook,           \* the state of useStockData and its calls in flight
    stock,          \* an exchange with the stock GET handler
    reader          \* a dashboard GET handler between its store reads

\* The variables outside the dashboard pipeline.
Elsewhere == <<process, hook, stock, reader>>

vars == <<store, req, resp, dashboardData, loading, filters, currentPage, pageAtChange,
          process, hook, stock, reader>>

\* The value of a variable of a part of the program that is not running.
Unused == [used |-> FALSE]

----------------------------------------------------------------------------
(* Bounds of the model *)

MaxRows == 2        \* rows in the store (multi-row specification)
MaxTime == 2        \* distinct processed_at values
MaxItems == 20      \* summaries held by the component (pagination specification)
MaxPage == 4        \* page numbers tried
MaxPageSize == 4    \* page sizes, besides ITEMS_PER_PAGE, for which the slicing is checked

----------------------------------------------------------------------------
(* JavaScript strings *)

\* SQL NULL / JavaScript null in a text position: a token that is no character.
Null == << "<null>" >>

\* String.prototype.toLowerCase on one character.
LowerChar(c) ==
    CASE c = "A" -> "a"
      [] c = "B" -> "b"
      [] c = "N" -> "n"
      [] c = "P" -> "p"
      [] c = "S" -> "s"
      [] OTHER -> c

toLowerCase(s) == [i \in 1..Len(s) |-> LowerChar(s[i])]

\* Array.prototype.join(sep) over a list of strings.
RECURSIVE join(_, _)
join(list, sep) ==
    IF list = <<>> THEN <<>>
    ELSE IF Len(list) = 1 THEN list[1]
    ELSE list[1] \o sep \o join(Tail(list), sep)

\* String.prototype.includes.
includes(text, term) ==
    \E i \in 0..(Len(text) - Len(term)) : SubSeq(text, i + 1, i + Len(term)) = term

\* x || '' and x || null on a nullable string.
OrEmpty(x) == IF x = Null \/ x = <<>> THEN <<>> ELSE x
OrNull(x) == IF x = Null \/ x = <<>> THEN Null ELSE x

----------------------------------------------------------------------------
(* JavaScript values and JSON.parse *)

\* A decoded JSON value: its type, and in v the array's entries (strings), or the
\* one string / number / boolean literal.
Arr(entries) == [t |-> "array", v |-> entries]
Obj == [t |-> "object", v |-> <<>>]
Str(s) == [t |-> "string", v |-> <<s>>]
Num(digits) == [t |-> "number", v |-> <<digits>>]
Bool(word) == [t |-> "boolean", v |-> <<word>>]
JsNull == [t |-> "null", v |-> <<>>]
SyntaxError == [t |-> "SyntaxError", v |-> <<>>]

\* SQL NULL in a JSON text column.
SqlNull == "<SQL NULL>"

\* JSON.parse on the texts the model stores: the decoded value, or SyntaxError
\* when the text is not valid JSON.
JSONParse(text) ==
    CASE text = "[]" -> Arr(<<>>)
      [] text = "[\"a\",\"B\"]" -> Arr(<< <<"a">>, <<"B">> >>)
      [] text = "{\"k\":1}" -> Obj
      [] text = "\"ab\"" -> Str(<<"a", "b">>)
      [] text = "7" -> Num(<<"7">>)
      [] text = "false" -> Bool(<<"f", "a", "l", "s", "e">>)
      [] text = "null" -> JsNull
      [] OTHER -> SyntaxError   \* "not-json", "[\"a\"", "", ...

\* JavaScript truthiness of a stored text and of a decoded value.
TruthyText(text) == text # SqlNull /\ text # ""

Truthy(x) ==
    CASE x.t \in {"array", "object"} -> TRUE
      [] x.t = "string" -> x.v[1] # <<>>
      [] x.t = "number" -> x.v[1] # <<"0">>
      [] x.t = "boolean" -> x.v[1] = <<"t", "r", "u", "e">>
      [] OTHER -> FALSE

IsList(x) == x.t = "array"

\* function safeJsonParse(jsonString)
safeJsonParse(jsonString) ==
    LET parsed == JSONParse(jsonString)
    IN  IF parsed = SyntaxError THEN Arr(<<>>)
        ELSE IF IsList(parsed) THEN parsed ELSE Arr(<<>>)

----------------------------------------------------------------------------
(* Shaping one stored row (the Summary Normalizer) *)

\* The option type of the map callbacks: <<>> is null (the catch branch),
\* <<x>> is the shaped summary.
None == <<>>
Some(x) == <<x>>

\* summary.confidence_score || 0 : the score is <<>> (NULL) or <<thousandths>>.
ScoreOrZero(c) == IF c = <<>> THEN 0 ELSE c[1]

\* A faulty variant of ParseOrEmpty: JSON.parse(summary.<field>) without the guard, which
\* decodes null to null.
ParseUnguarded(text) == IF text = SqlNull THEN JsNull ELSE JSONParse(text)

\* summary.<field> ? JSON.parse(summary.<field>) : []
ParseOrEmpty(text) == IF TruthyText(text) THEN JSONParse(text) ELSE Arr(<<>>)

\* summary.<field> ? safeJsonParse(summary.<field>) : []
SafeParseOrEmpty(text) == IF TruthyText(text) THEN safeJsonParse(text) ELSE Arr(<<>>)

ArrayFields ==
    {"key_metrics", "companies_mentioned", "sectors_affected", "risk_factors", "opportunities"}

\* The object literal built inside the try block of the raw-SQL handler.
ShapedRaw(summary) ==
    [id |-> summary.id,
     source_file |-> OrEmpty(summary.source_file),
     processed_at |-> summary.processed_at,
     model_used |-> OrEmpty(summary.model_used),
     original_url |-> OrNull(summary.collected_urls.url),
     article_domain |-> OrNull(summary.collected_urls.domain),
     parsed_summary |->
        [summary |-> OrEmpty(summary.summary),
         investment_implications |-> OrEmpty(summary.investment_implications),
         sentiment |-> OrEmpty(summary.sentiment),
         time_horizon |-> OrEmpty(summary.time_horizon),
         confidence_score |-> ScoreOrZero(summary.confidence_score),
         key_metrics |-> ParseOrEmpty(summary.key_metrics),
         companies_mentioned |-> ParseOrEmpty(summary.companies_mentioned),
         sectors_affected |-> ParseOrEmpty(summary.sectors_affected),
         risk_factors |-> ParseOrEmpty(summary.risk_factors),
         opportunities |-> ParseOrEmpty(summary.opportunities)]]

\* The object literal built inside the try block of the ORM handler.
ShapedOrm(summary) ==
    [id |-> summary.id,
     source_file |-> OrEmpty(summary.source_file),
     processed_at |-> summary.processed_at,
     model_used |-> OrEmpty(summary.model_used),
     original_url |-> OrNull(summary.collected_urls.url),
     article_domain |-> OrNull(summary.collected_urls.domain),
     parsed_summary |->
        [summary |-> OrEmpty(summary.summary),
         investment_implications |-> OrEmpty(summary.investment_implications),
         sentiment |-> OrEmpty(summary.sentiment),
         time_horizon |-> OrEmpty(summary.time_horizon),
         confidence_score |-> ScoreOrZero(summary.confidence_score),
         key_metrics |-> SafeParseOrEmpty(summary.key_metrics),
         companies_mentioned |-> SafeParseOrEmpty(summary.companies_mentioned),
         sectors_affected |-> SafeParseOrEmpty(summary.sectors_affected),
         risk_factors |-> SafeParseOrEmpty(summary.risk_factors),
         opportunities |-> SafeParseOrEmpty(summary.opportunities)]]

\* JSON.parse raised while the literal was being built.
DecodeThrew(shaped) ==
    \E f \in ArrayFields : shaped.parsed_summary[f] = SyntaxError

\* The map callback of the raw-SQL handler: try { return {...} } catch { return null }.
\* summary.unreadable stands for any other exception raised inside the try block.
MapRaw(summary) ==
    IF summary.unreadable THEN None
    ELSE IF DecodeThrew(ShapedRaw(summary)) THEN None
    ELSE Some(ShapedRaw(summary))

\* The map callback of the ORM handler.
MapOrm(summary) ==
    IF summary.unreadable THEN None
    ELSE Some(ShapedOrm(summary))

\* summaries.map(summary => { try ... catch ... }).filter(Boolean), raw-SQL handler
RECURSIVE MapFilterRaw(_)
MapFilterRaw(summaries) ==
    IF summaries = <<>> THEN <<>>
    ELSE MapRaw(Head(summaries)) \o MapFilterRaw(Tail(summaries))

\* summaries.map(summary => { try ... catch ... }).filter(Boolean), ORM handler
RECURSIVE MapFilterOrm(_)
MapFilterOrm(summaries) ==
    IF summaries = <<>> THEN <<>>
    ELSE MapOrm(Head(summaries)) \o MapFilterOrm(Tail(summaries))

----------------------------------------------------------------------------
(* The Filter Engine *)

NoFilters == [sentiment |-> <<>>, timeHorizon |-> <<>>, search |-> <<>>]

\* ...(x || []) : the spread raises TypeError on a truthy value that is not iterable.
Spreadable(x) == ~Truthy(x) \/ x.t \in {"array", "string"}

\* The elements the spread contributes (none where it raises).
SpreadItems(x) ==
    CASE x.t = "array" -> x.v
      [] x.t = "string" -> [i \in 1..Len(x.v[1]) |-> <<x.v[1][i]>>]   \* its characters
      [] OTHER -> <<>>

SpreadThrows(summary) ==
    \/ ~Spreadable(summary.parsed_summary.companies_mentioned)
    \/ ~Spreadable(summary.parsed_summary.sectors_affected)
    \/ ~Spreadable(summary.parsed_summary.key_metrics)

\* searchableText of the two API handlers.
ServerSearchableText(summary) ==
    toLowerCase(join(
        << summary.parsed_summary.summary,
           summary.parsed_summary.investment_implications >>
        \o SpreadItems(summary.parsed_summary.companies_mentioned)
        \o SpreadItems(summary.parsed_summary.sectors_affected)
        \o SpreadItems(summary.parsed_summary.key_metrics)
        \o << summary.source_file,
              OrEmpty(summary.original_url),
              OrEmpty(summary.article_domain),
              OrEmpty(summary.model_used) >>,
        <<" ">>))

\* searchableText of the dashboard component.
ClientSearchableText(summary) ==
    toLowerCase(join(
        << summary.parsed_summary.summary,
           summary.parsed_summary.investment_implications >>
        \o SpreadItems(summary.parsed_summary.companies_mentioned)
        \o SpreadItems(summary.parsed_summary.sectors_affected)
        \o SpreadItems(summary.parsed_summary.key_metrics)
        \o << summary.source_file >>,
        <<" ">>))

\* The filter callback of the API handlers: "true", "false", or "throw".
ServerFilterCallback(summary, f) ==
    IF f.sentiment # <<>>
       /\ toLowerCase(summary.parsed_summary.sentiment) # toLowerCase(f.sentiment)
    THEN "false"
    ELSE IF f.timeHorizon # <<>>
            /\ toLowerCase(summary.parsed_summary.time_horizon) # toLowerCase(f.timeHorizon)
    THEN "false"
    ELSE IF f.search # <<>>
    THEN IF SpreadThrows(summary) THEN "throw"
         ELSE IF ~includes(ServerSearchableText(summary), toLowerCase(f.search))
         THEN "false"
         ELSE "true"
    ELSE "true"

\* The filter callback of the dashboard component.
ClientFilterCallback(summary, f) ==
    IF f.sentiment # <<>>
       /\ toLowerCase(summary.parsed_summary.sentiment) # toLowerCase(f.sentiment)
    THEN "false"
    ELSE IF f.timeHorizon # <<>>
            /\ toLowerCase(summary.parsed_summary.time_horizon) # toLowerCase(f.timeHorizon)
    THEN "false"
    ELSE IF f.search # <<>>
    THEN IF SpreadThrows(summary) THEN "throw"
         ELSE IF ~includes(ClientSearchableText(summary), toLowerCase(f.search))
         THEN "false"
         ELSE "true"
    ELSE "true"

\* The outcome of Array.prototype.filter: the kept elements in order, or an
\* exception when a callback raised.
Returned(list) == [threw |-> FALSE, list |-> list]
Threw == [threw |-> TRUE, list |-> <<>>]

KeptByServer(summary, f) == ServerFilterCallback(summary, f) = "true"
KeptByClient(summary, f) == ClientFilterCallback(summary, f) = "true"

\* if (sentiment || timeHorizon || search) processedSummaries = processedSummaries.filter(...)
ServerFilter(processedSummaries, f) ==
    IF f = NoFilters THEN Returned(processedSummaries)
    ELSE IF \E i \in 1..Len(processedSummaries) :
               ServerFilterCallback(processedSummaries[i], f) = "throw"
    THEN Threw
    ELSE Returned(SelectSeq(processedSummaries, LAMBDA x : KeptByServer(x, f)))

\* dashboardData.summaries.filter(...) of the useMemo
ClientFilter(summaries, f) ==
    IF \E i \in 1..Len(summaries) : ClientFilterCallback(summaries[i], f) = "throw"
    THEN Threw
    ELSE Returned(SelectSeq(summaries, LAMBDA x : KeptByClient(x, f)))

----------------------------------------------------------------------------
(* The store and its queries *)

QueryLimit == 200

Min(a, b) == IF a < b THEN a ELSE b

\* ORDER BY processed_at DESC: every order of the rows with non-increasing
\* processed_at (rows with equal timestamps come in any order).
RECURSIVE OrderedDesc(_, _)
OrderedDesc(rows, left) ==
    IF left = {} THEN {<<>>}
    ELSE UNION { { <<rows[i]>> \o rest : rest \in OrderedDesc(rows, left \ {i}) } :
                 i \in { j \in left :
                           \A k \in left : rows[k].processed_at <= rows[j].processed_at } }

\* A faulty variant of QuerySummaries: the query without its ORDER BY (insertion order).
QuerySummariesUnordered(rows) == { SubSeq(rows, 1, Min(Len(rows), QueryLimit)) }

\* SELECT ... ORDER BY a.processed_at DESC LIMIT 200 / findMany({ take: 200, orderBy })
QuerySummaries(rows) ==
    { SubSeq(r, 1, Min(Len(r), QueryLimit)) : r \in OrderedDesc(rows, DOMAIN rows) }

positive == <<"p", "o", "s", "i", "t", "i", "v", "e">>
negative == <<"n", "e", "g", "a", "t", "i", "v", "e">>
neutral == <<"n", "e", "u", "t", "r", "a", "l">>

\* A faulty variant of CountSentiment: rows without a sentiment counted as neutral.
CountSentimentOrUnknown(rows, word) ==
    Cardinality({ i \in 1..Len(rows) :
                    \/ rows[i].sentiment = word
                    \/ word = neutral /\ rows[i].sentiment = Null })

\* COUNT(CASE WHEN sentiment = <word> THEN 1 END)
CountSentiment(rows, word) == Cardinality({ i \in 1..Len(rows) : rows[i].sentiment = word })

RECURSIVE SumScores(_)
SumScores(rows) ==
    IF rows = <<>> THEN 0
    ELSE ScoreOrZero(Head(rows).confidence_score) + SumScores(Tail(rows))

\* The rows AVG(confidence_score) averages: those whose score is not NULL.
CountScored(rows) == Cardinality({ i \in 1..Len(rows) : rows[i].confidence_score # <<>> })

\* Math.round(x * 100) for x = sum / n thousandths: floor(x * 100 + 1/2).
RoundTimes100(sum, n) == (2 * sum + 10 * n) \div (20 * n)

\* Math.round((Number(AVG(confidence_score)) || 0) * 100) / 100, in hundredths:
\* AVG skips NULL scores and is NULL when there is none.
AvgConfidence(rows) ==
    LET n == CountScored(rows)
    IN  IF n = 0 THEN 0 ELSE RoundTimes100(SumScores(rows), n)

\* The stats query and dashboardStats (both handlers read the whole table).
DashboardStats(rows) ==
    [total_summaries |-> Len(rows),
     sentiments |-> [positive |-> CountSentiment(rows, positive),
                     negative |-> CountSentiment(rows, negative),
                     neutral |-> CountSentiment(rows, neutral)],
     avg_confidence |-> AvgConfidence(rows)]

NoStats == DashboardStats(<<>>)

----------------------------------------------------------------------------
(* Responses *)

Success(summaries, stats) ==
    [status |-> 200, success |-> TRUE, hasData |-> TRUE,
     summaries |-> summaries, stats |-> stats, error |-> ""]

\* A faulty variant of Failure: a data field sent along with the error.
FailureWithData(status, message) ==
    [status |-> status, success |-> FALSE, hasData |-> TRUE,
     summaries |-> <<>>, stats |-> DashboardStats(<<>>), error |-> message]

Failure(status, message) ==
    [status |-> status, success |-> FALSE, hasData |-> FALSE,
     summaries |-> <<>>, stats |-> NoStats, error |-> message]

NoResponse ==
    [status |-> 0, success |-> FALSE, hasData |-> FALSE,
     summaries |-> <<>>, stats |-> NoStats, error |-> ""]

\* A request served: the handler, its parameters, the rows the store returned,
\* the message of the error the store raised ("" when it answered), and
\* NODE_ENV when the exchange failed ("" otherwise: no success response reads it).
NoRequest ==
    [handler |-> "none", filters |-> NoFilters, rows |-> <<>>, id |-> 0,
     failure |-> "", nodeEnv |-> ""]

Request(handler, f, rows, id, failure, nodeEnv, response) ==
    [handler |-> handler, filters |-> f, rows |-> IF failure = "" THEN rows ELSE <<>>,
     id |-> id, failure |-> failure,
     nodeEnv |-> IF response.success THEN "" ELSE nodeEnv]

\* A faulty variant of DashboardRawResponse: the stats computed over the rows
\* that passed the filter.
DashboardRawResponseStatsOfFiltered(rows, all, f, failure) ==
    IF failure # "" THEN Failure(500, failure)
    ELSE LET filtered == ServerFilter(MapFilterRaw(rows), f)
             kept == SelectSeq(rows, LAMBDA row :
                        \E j \in 1..Len(filtered.list) : filtered.list[j].id = row.id)
         IN  IF filtered.threw THEN Failure(500, "not iterable")
             ELSE Success(filtered.list, DashboardStats(kept))

\* export async function GET(request), app/api/dashboard/route.js, once the
\* store has answered with `rows`, or a query has rejected with the error
\* message `failure`.
DashboardRawResponse(rows, all, f, failure) ==
    IF failure # "" THEN Failure(500, failure)
    ELSE LET filtered == ServerFilter(MapFilterRaw(rows), f)
         IN  IF filtered.threw THEN Failure(500, "not iterable")
             ELSE Success(filtered.list, DashboardStats(all))

\* export async function GET(request), the ORM variant.
DashboardOrmResponse(rows, all, f, failure, nodeEnv) ==
    LET message(m) == IF nodeEnv = "development" THEN m ELSE "Internal server error"
    IN  IF failure # "" THEN Failure(500, message(failure))
        ELSE LET filtered == ServerFilter(MapFilterOrm(rows), f)
             IN  IF filtered.threw THEN Failure(500, message("not iterable"))
                 ELSE Success(filtered.list, DashboardStats(all))

\* processedSummary of the single-summary handler
ShapedSingle(summary) ==
    [id |-> summary.id,
     source_file |-> summary.source_file,
     processed_at |-> summary.processed_at,
     model_used |-> summary.model_used,
     collected_urls |-> summary.collected_urls,
     parsed_summary |->
        [summary |-> summary.summary,
         investment_implications |-> summary.investment_implications,
         sentiment |-> summary.sentiment,
         time_horizon |-> summary.time_horizon,
         confidence_score |-> summary.confidence_score,
         key_metrics |-> ParseOrEmpty(summary.key_metrics),
         companies_mentioned |-> ParseOrEmpty(summary.companies_mentioned),
         sectors_affected |-> ParseOrEmpty(summary.sectors_affected),
         risk_factors |-> ParseOrEmpty(summary.risk_factors),
         opportunities |-> ParseOrEmpty(summary.opportunities)]]

\* export async function GET(request, { params }): the single-summary handler
SummaryResponse(rows, id, failure) ==
    IF failure # "" THEN Failure(500, failure)
    ELSE IF ~(\E i \in 1..Len(rows) : rows[i].id = id)
    THEN Failure(404, "Summary not found")
    ELSE LET summary == rows[CHOOSE i \in 1..Len(rows) : rows[i].id = id]
         IN  IF summary.unreadable \/ DecodeThrew(ShapedSingle(summary))
             THEN Failure(500, "shaping failed")
             ELSE Success(<<ShapedSingle(summary)>>, NoStats)

\* The user table: one user, with id 1.
Users == << [id |-> 1] >>

\* db.user.findUnique({ where: { id } }): the user, or <<>> (null).
FindUser(id) == SelectSeq(Users, LAMBDA user : user.id = id)

\* userService.getUserById(id); `failure` is the message of the error findUnique
\* rejected with, "" when it answered.
getUserById(id, failure) ==
    IF failure # "" THEN [success |-> FALSE, error |-> failure]
    ELSE IF FindUser(id) = <<>> THEN [success |-> FALSE, error |-> "User not found"]
    ELSE [success |-> TRUE, error |-> ""]

\* export async function GET(request, { params }) of users/[id]: the user as
\* the body (success stands for that 200 answer), or { error } with status 404.
UserResponse(id, failure) ==
    LET result == getUserById(id, failure)
    IN  IF ~result.success THEN Failure(404, result.error)
        ELSE [status |-> 200, success |-> TRUE, hasData |-> TRUE,
              summaries |-> <<>>, stats |-> NoStats, error |-> ""]

----------------------------------------------------------------------------
(* The dashboard component: client-side filtering and pagination *)

ITEMS_PER_PAGE == 9

\* Math.ceil(n / d) for n >= 0, d > 0.
Ceil(n, d) == IF n % d = 0 THEN n \div d ELSE (n \div d) + 1

\* Array.prototype.slice(start, end) for 0 <= start <= end: the elements at the
\* 0-based indices start .. end-1 that exist.
Slice(list, start, end) ==
    IF start >= Len(list) THEN <<>>
    ELSE SubSeq(list, start + 1, Min(end, Len(list)))

\* A faulty variant of TotalPagesOf: Math.floor in place of Math.ceil.
TotalPagesFloor(length, size) == length \div size

\* A faulty variant of StartIndexOf: the page taken as 0-based.
StartIndexZeroBased(page, size) == page * size

TotalPagesOf(length, size) == Ceil(length, size)
StartIndexOf(page, size) == (page - 1) * size
PageOf(list, page, size) ==
    Slice(list, StartIndexOf(page, size), StartIndexOf(page, size) + size)

\* const filteredSummaries = useMemo(...)
filteredSummaries ==
    IF dashboardData = <<>> THEN Returned(<<>>)
    ELSE ClientFilter(dashboardData[1].summaries, filters)

totalPages == TotalPagesOf(Len(filteredSummaries.list), ITEMS_PER_PAGE)
startIndex == StartIndexOf(currentPage, ITEMS_PER_PAGE)
paginatedSummaries == PageOf(filteredSummaries.list, currentPage, ITEMS_PER_PAGE)

\* filteredSummaries.reduce((sum, summary) => sum + (confidence_score || 0), 0)
RECURSIVE SumShapedScores(_)
SumShapedScores(list) ==
    IF list = <<>> THEN 0
    ELSE Head(list).parsed_summary.confidence_score + SumShapedScores(Tail(list))

\* The reduce over sentiment?.toLowerCase(): the summaries counted as `word`.
CountShapedSentiment(list, word) ==
    Cardinality({ i \in 1..Len(list) :
                    toLowerCase(list[i].parsed_summary.sentiment) = word })

\* const filteredStats = useMemo(...): avg_confidence is a whole percentage.
StatsOfFiltered(list) ==
    IF Len(list) = 0
    THEN [total_summaries |-> 0,
          sentiments |-> [positive |-> 0, negative |-> 0, neutral |-> 0],
          avg_confidence |-> 0]
    ELSE [total_summaries |-> Len(list),
          sentiments |-> [positive |-> CountShapedSentiment(list, positive),
                          negative |-> CountShapedSentiment(list, negative),
                          neutral |-> CountShapedSentiment(list, neutral)],
          avg_confidence |-> RoundTimes100(SumShapedScores(list), Len(list))]

filteredStats == StatsOfFiltered(filteredSummaries.list)

\* Math.round(score * 100) of a score in thousandths: halves round up.
RoundPercent(score) == (score + 5) \div 10

\* A faulty variant of getConfidenceConfig: the thresholds compared with >.
getConfidenceConfigStrict(confidence) ==
    IF confidence = 0 THEN "Unknown"
    ELSE IF confidence > 800 THEN "High"
    ELSE IF confidence > 600 THEN "Medium"
    ELSE "Low"

\* NewsCard, getConfidenceConfig(confidence).label; the scores are thousandths,
\* and !confidence holds of 0 (null has become 0 in the shaped summary).
getConfidenceConfig(confidence) ==
    IF confidence = 0 THEN "Unknown"
    ELSE IF confidence >= 800 THEN "High"
    ELSE IF confidence >= 600 THEN "Medium"
    ELSE "Low"

\* NewsCard, {confidence_score && (<span>...% label</span>)}: the badge span
\* when the score is truthy; for 0 the expression is the number 0, which is
\* rendered as the text 0 and not as a badge.
ConfidenceBadge(summary) ==
    LET score == summary.parsed_summary.confidence_score
    IN  IF score = 0
        THEN [badge |-> FALSE, percent |-> 0, label |-> "", text |-> "0"]
        ELSE [badge |-> TRUE, percent |-> RoundPercent(score),
              label |-> getConfidenceConfig(score), text |-> ""]

\* A faulty variant of PageButtons: the window near the end starts one page early.
PageButtonsEarly ==
    { IF totalPages <= 5 THEN i + 1
      ELSE IF currentPage <= 3 THEN i + 1
      ELSE IF currentPage >= totalPages - 2 THEN totalPages - 5 + i
      ELSE currentPage - 2 + i : i \in 0..(Min(5, totalPages) - 1) }

\* The page-number buttons: Array.from({ length: Math.min(5, totalPages) }, ...)
PageButtons ==
    LET pages == totalPages
    IN  { IF pages <= 5 THEN i + 1
          ELSE IF currentPage <= 3 THEN i + 1
          ELSE IF currentPage >= pages - 2 THEN pages - 4 + i
          ELSE currentPage - 2 + i : i \in 0..(Min(5, pages) - 1) }

\* A faulty variant of ClickablePages: Next is not disabled on the last page.
ClickablePagesNextEnabled ==
    IF Len(filteredSummaries.list) > 0 /\ totalPages > 1
    THEN (IF currentPage = 1 THEN {} ELSE {currentPage - 1})
         \cup {currentPage + 1}
         \cup PageButtons
    ELSE {}

\* The pages a click can ask for: Previous and Next unless disabled, and the
\* page numbers; the controls are rendered only when totalPages > 1.
ClickablePages ==
    IF Len(filteredSummaries.list) > 0 /\ totalPages > 1
    THEN (IF currentPage = 1 THEN {} ELSE {currentPage - 1})
         \cup (IF currentPage = totalPages THEN {} ELSE {currentPage + 1})
         \cup PageButtons
    ELSE {}

\* The main view is on screen: not loading, data present, and the render did not raise.
Rendered == ~loading /\ dashboardData # <<>> /\ ~filteredSummaries.threw

\* What the component returns: the two early returns, then the dashboard; a
\* filter callback that throws during render takes the component down.
View ==
    IF loading THEN "Loading dashboard..."
    ELSE IF dashboardData = <<>> THEN "No Data Available"
    ELSE IF filteredSummaries.threw THEN "crash"
    ELSE "dashboard"

----------------------------------------------------------------------------
(* The stores and requests the model draws from *)

Positive == <<"P", "o", "s", "i", "t", "i", "v", "e">>
shortTerm == <<"s", "h", "o", "r", "t", "-", "t", "e", "r", "m">>
ShortTerm == <<"S", "h", "o", "r", "t", "-", "t", "e", "r", "m">>

NoUrl == [url |-> Null, domain |-> Null]     \* LEFT JOIN without a collected_urls row

StoredTexts ==
    {SqlNull, "", "[]", "[\"a\",\"B\"]", "{\"k\":1}", "\"ab\"", "7", "false", "null",
     "not-json", "[\"a\""}

CoreTexts == {SqlNull, "[\"a\",\"B\"]", "{\"k\":1}"}

\* The five JSON columns: one column holding any stored text while the other
\* four hold the same core text, for every column.
ArrayProfiles ==
    { [f \in ArrayFields |-> IF f = d THEN t1 ELSE t0] :
        d \in ArrayFields, t0 \in CoreTexts, t1 \in StoredTexts }

AllValid == [f \in ArrayFields |-> "[\"a\",\"B\"]"]
AllAbsent == [f \in ArrayFields |-> SqlNull]

TextProfiles ==
    [source_file : {<<"f">>},
     model_used : {<<"m">>, <<"u">>},
     collected_urls : {NoUrl, [url |-> <<"u">>, domain |-> <<"d">>],
                       [url |-> <<"x">>, domain |-> <<"A">>]},
     summary : {Null, <<"a">>},
     investment_implications : {Null, <<"B">>}]

DefaultText ==
    [source_file |-> <<"f">>, model_used |-> <<"m">>, collected_urls |-> NoUrl,
     summary |-> <<"a">>, investment_implications |-> Null]

LabelProfiles ==
    [sentiment : {Null, Positive, negative},
     time_horizon : {Null, ShortTerm},
     confidence_score : {<<>>, <<820>>}]

DefaultLabels ==
    [sentiment |-> Positive, time_horizon |-> ShortTerm, confidence_score |-> <<820>>]

Row(id, at, unreadable, text, labels, arrays) ==
    [id |-> id,
     processed_at |-> at,
     unreadable |-> unreadable,
     source_file |-> text.source_file,
     model_used |-> text.model_used,
     collected_urls |-> text.collected_urls,
     summary |-> text.summary,
     investment_implications |-> text.investment_implications,
     sentiment |-> labels.sentiment,
     time_horizon |-> labels.time_horizon,
     confidence_score |-> labels.confidence_score,
     key_metrics |-> arrays["key_metrics"],
     companies_mentioned |-> arrays["companies_mentioned"],
     sectors_affected |-> arrays["sectors_affected"],
     risk_factors |-> arrays["risk_factors"],
     opportunities |-> arrays["opportunities"]]

\* Stores of one row: every array profile, and every text and label profile.
RecordStores ==
    { << Row(1, 1, FALSE, DefaultText, DefaultLabels, a) >> : a \in ArrayProfiles }
    \cup { << Row(1, 1, FALSE, t, l, AllValid) >> :
             t \in TextProfiles, l \in LabelProfiles }
    \cup { << Row(1, 1, FALSE, t, DefaultLabels, AllAbsent) >> : t \in TextProfiles }

\* The kinds of row of the stores of several rows.
RowKinds ==
    { [unreadable |-> FALSE, labels |-> DefaultLabels, arrays |-> AllValid],
      [unreadable |-> FALSE,
       labels |-> [DefaultLabels EXCEPT !.sentiment = negative], arrays |-> AllValid],
      [unreadable |-> FALSE, labels |-> DefaultLabels,
       arrays |-> [AllValid EXCEPT !["key_metrics"] = "not-json"]],
      [unreadable |-> FALSE,
       labels |-> [DefaultLabels EXCEPT !.sentiment = negative],
       arrays |-> [AllValid EXCEPT !["companies_mentioned"] = "{\"k\":1}"]],
      [unreadable |-> TRUE, labels |-> DefaultLabels, arrays |-> AllValid] }

\* source_file is unique: "f" followed by the row's id.
Digit(n) == <<"0", "1", "2", "3", "4", "5", "6", "7", "8", "9">>[n + 1]
SourceFile(id) ==
    IF id < 10 THEN <<"f", Digit(id)>> ELSE <<"f", Digit(id \div 10), Digit(id % 10)>>

\* The processed_at values of n rows: all equal, or cycling through 1..MaxTime
\* from its second or from its first value.
TimeOrders(n) ==
    { [i \in 1..n |-> 1] }
    \cup { [i \in 1..n |-> ((i + shift) % MaxTime) + 1] : shift \in {0, MaxTime - 1} }

\* The rows of odd id share one kind and the rows of even id another, for
\* every pair of kinds.
MultiStores ==
    UNION { { [i \in 1..n |->
                Row(i, at[i], kind[i % 2].unreadable,
                    [DefaultText EXCEPT !.source_file = SourceFile(i)],
                    kind[i % 2].labels, kind[i % 2].arrays)] :
              at \in TimeOrders(n), kind \in [0..1 -> RowKinds] } :
            n \in 0..MaxRows }

\* confidence_score values, in thousandths: NULL, 0, and scores around the
\* rounding and label thresholds.
mixed == <<"m", "i", "x", "e", "d">>

\* sentiment values: both letter cases, NULL, and a value outside the categories.
Sentiments == << Positive, negative, neutral, Null, mixed, positive >>

Scores == << <<>>, <<820>>, <<0>>, <<595>>, <<600>>, <<4>>, <<799>>, <<800>>, <<825>>, <<1000>> >>

\* Stores of up to MaxItems well-formed rows, cycling through Sentiments and
\* Scores, newest last.
PageStores ==
    { [i \in 1..n |->
         Row(i, i, FALSE, [DefaultText EXCEPT !.source_file = SourceFile(i)],
             [DefaultLabels EXCEPT
                 !.sentiment = Sentiments[((i - 1) % Len(Sentiments)) + 1],
                 !.confidence_score = Scores[((i - 1) % Len(Scores)) + 1]],
             AllValid)] : n \in 0..MaxItems }

SentimentParams == {<<>>, positive}
HorizonParams == {<<>>, shortTerm}
SearchParams == {<<>>, <<"A">>, <<"a", " ", "b">>, <<"u">>}

\* The query parameters / filter values tried (absent and '' are both falsy).
FilterParams ==
    [sentiment : SentimentParams, timeHorizon : HorizonParams, search : SearchParams]

NodeEnvs == {"development", "production"}

\* What a store read does: "" is an answer, the others are the message of the
\* error it rejects with.
StoreOutcomes == {"", "connection refused", "statement timeout"}

\* NODE_ENV is read only on the way to a failure response: for a success one
\* value stands for all.
EnvsThatMatter(response) == IF response.success THEN {"production"} ELSE NodeEnvs

\* The store reads come before the handler looks at the query parameters, so
\* a failing read is tried on the requests without parameters.
StoreOutcomesFor(f) == IF f = NoFilters THEN StoreOutcomes ELSE {""}

----------------------------------------------------------------------------
(* Actions *)

ServerUnchanged ==
    UNCHANGED <<store, dashboardData, loading, filters, currentPage, pageAtChange, Elsewhere>>

\* A handler keeps nothing between requests and the store is only read: a
\* behaviour holds one exchange, and every exchange starts from a state of Init.
Idle == req = NoRequest

\* GET /api/dashboard, raw-SQL handler.
DashboardGETRaw ==
    /\ Idle
    /\ \E f \in FilterParams, rows \in QuerySummaries(store) :
       \E failure \in StoreOutcomesFor(f) :
        /\ resp' = DashboardRawResponse(rows, store, f, failure)
        /\ \E nodeEnv \in EnvsThatMatter(resp') :
              req' = Request("dashboard-raw", f, rows, 0, failure, nodeEnv, resp')
        /\ ServerUnchanged

\* GET /api/dashboard, ORM handler.
DashboardGETOrm ==
    /\ Idle
    /\ \E f \in FilterParams, rows \in QuerySummaries(store) :
       \E failure \in StoreOutcomesFor(f) :
        LET answer == DashboardOrmResponse(rows, store, f, failure, "production")
        IN  \E nodeEnv \in EnvsThatMatter(answer) :
              /\ resp' = IF answer.success THEN answer
                         ELSE DashboardOrmResponse(rows, store, f, failure, nodeEnv)
              /\ req' = Request("dashboard-orm", f, rows, 0, failure, nodeEnv, resp')
              /\ ServerUnchanged

\* GET /api/summaries/[id]
SummaryGET ==
    /\ Idle
    /\ \E id \in 1..(Len(store) + 1), failure \in StoreOutcomes :
        /\ resp' = SummaryResponse(store, id, failure)
        /\ req' = Request("summary", NoFilters, store, id, failure, "", resp')
        /\ ServerUnchanged

\* GET /api/users/[id]
UserGET ==
    /\ Idle
    /\ \E id \in 1..(Len(Users) + 1), failure \in StoreOutcomes :
        /\ resp' = UserResponse(id, failure)
        /\ req' = Request("user", NoFilters, FindUser(id), id, failure, "", resp')
        /\ ServerUnchanged

\* The exchange that answers the component's fetch('/api/dashboard'): a
\* dashboard handler, no query parameters.
Answered == req.handler \in {"dashboard-raw", "dashboard-orm"} /\ req.filters = NoFilters

\* A faulty variant of fetchDashboardData: without the test of result.success.
fetchDashboardDataUnchecked ==
    /\ loading
    /\ \E netOk \in (IF Answered THEN BOOLEAN ELSE {FALSE}) :
          dashboardData' =
             IF netOk
             THEN << [summaries |-> resp.summaries, stats |-> resp.stats] >>
             ELSE dashboardData
    /\ loading' = FALSE
    /\ UNCHANGED <<store, req, resp, filters, currentPage, pageAtChange, Elsewhere>>

\* fetchDashboardData, run once by the mount effect, from the settling of the
\* fetch on. netOk = FALSE is a fetch or response.json() that rejects, the only
\* outcome when no handler answered the request; netOk = TRUE reads the answer
\* of the exchange. The finally block runs on every path.
fetchDashboardData ==
    /\ loading
    /\ \E netOk \in (IF Answered THEN BOOLEAN ELSE {FALSE}) :
          dashboardData' =
             IF netOk /\ resp.success
             THEN << [summaries |-> resp.summaries, stats |-> resp.stats] >>
             ELSE dashboardData
    /\ loading' = FALSE
    /\ UNCHANGED <<store, req, resp, filters, currentPage, pageAtChange, Elsewhere>>

\* A faulty variant of setFilters: without the [filters] effect.
setFiltersWithoutEffect(field, value) ==
    /\ Rendered
    /\ filters' = [filters EXCEPT ![field] = value]
    /\ pageAtChange' = currentPage
    /\ UNCHANGED <<store, req, resp, dashboardData, loading, currentPage, Elsewhere>>

\* onChange of a filter control: setFilters(prev => ({ ...prev, [field]: value })),
\* then the [filters] effect: setCurrentPage(1).
setFilters(field, value) ==
    /\ Rendered
    /\ filters' = [filters EXCEPT ![field] = value]
    /\ currentPage' = 1
    /\ pageAtChange' = currentPage
    /\ UNCHANGED <<store, req, resp, dashboardData, loading, Elsewhere>>

clearFilters ==
    /\ Rendered
    /\ filters' = NoFilters
    /\ currentPage' = 1
    /\ pageAtChange' = currentPage
    /\ UNCHANGED <<store, req, resp, dashboardData, loading, Elsewhere>>

goToPage(page) ==
    /\ Rendered
    /\ currentPage' = page
    /\ pageAtChange' = 0
    /\ UNCHANGED <<store, req, resp, dashboardData, loading, filters, Elsewhere>>

InitComponent ==
    /\ dashboardData = <<>>
    /\ loading = TRUE
    /\ filters = NoFilters
    /\ currentPage = 1
    /\ pageAtChange = 0

InitServer ==
    /\ req = NoRequest
    /\ resp = NoResponse

\* A store of a few rows, of one row of any profile, or of many well-formed rows.
ElsewhereAtRest ==
    /\ process = Unused
    /\ hook = Unused
    /\ stock = Unused
    /\ reader = Unused

Init ==
    /\ store \in MultiStores \cup RecordStores \cup PageStores
    /\ InitServer
    /\ InitComponent
    /\ ElsewhereAtRest

Next ==
    \/ DashboardGETRaw
    \/ DashboardGETOrm
    \/ SummaryGET
    \/ UserGET
    \/ fetchDashboardData
    \/ \E value \in SentimentParams : setFilters("sentiment", value)
    \/ \E value \in HorizonParams : setFilters("timeHorizon", value)
    \/ \E value \in SearchParams : setFilters("search", value)
    \/ clearFilters
    \/ \E page \in ClickablePages : goToPage(page)

Spec == Init /\ [][Next]_vars

\* The mounted component: the fetch of the mount effect settles, and the
\* continuation of fetchDashboardData runs.
SpecMounted == Spec /\ WF_vars(fetchDashboardData)

----------------------------------------------------------------------------
(* Claims *)

DashboardExchange == req.handler \in {"dashboard-raw", "dashboard-orm"}

Ids(list) == [i \in 1..Len(list) |-> list[i].id]

\* The row a returned summary was shaped from.
RowOf(summary) == req.rows[CHOOSE i \in 1..Len(req.rows) : req.rows[i].id = summary.id]

InvalidJson(text) == text # SqlNull /\ JSONParse(text) = SyntaxError

\* The rows whose shaping raises for a reason other than a JSON decode failure.
Readable(row) == ~row.unreadable

\* C1: a dashboard request without filters, over rows the store returned: every
\* readable row with an array column that holds invalid JSON is returned in
\* data.summaries of a success response, with [] in that field.
C1_InvalidJsonYieldsEmptyList ==
    (DashboardExchange /\ req.filters = NoFilters) =>
        \A i \in 1..Len(req.rows) : \A f \in ArrayFields :
            (Readable(req.rows[i]) /\ InvalidJson(req.rows[i][f])) =>
                /\ resp.success
                /\ \E j \in 1..Len(resp.summaries) :
                      /\ resp.summaries[j].id = req.rows[i].id
                      /\ resp.summaries[j].parsed_summary[f] = Arr(<<>>)

C3_ArrayFieldsAreLists ==
    (DashboardExchange /\ resp.success) =>
        \A j \in 1..Len(resp.summaries) : \A f \in ArrayFields :
            /\ IsList(resp.summaries[j].parsed_summary[f])
            /\ LET text == RowOf(resp.summaries[j])[f]
               IN  (TruthyText(text) /\ ~InvalidJson(text) /\ ~IsList(JSONParse(text)))
                      => resp.summaries[j].parsed_summary[f] = Arr(<<>>)

Processed ==
    IF req.handler = "dashboard-orm" THEN MapFilterOrm(req.rows) ELSE MapFilterRaw(req.rows)

Among(x, list) == \E j \in 1..Len(list) : list[j] = x

SentimentPasses(summary, f) ==
    f.sentiment = <<>>
    \/ toLowerCase(summary.parsed_summary.sentiment) = toLowerCase(f.sentiment)

HorizonPasses(summary, f) ==
    f.timeHorizon = <<>>
    \/ toLowerCase(summary.parsed_summary.time_horizon) = toLowerCase(f.timeHorizon)

ServerSearchPasses(summary, f) ==
    f.search = <<>> \/ includes(ServerSearchableText(summary), toLowerCase(f.search))

ClientSearchPasses(summary, f) ==
    f.search = <<>> \/ includes(ClientSearchableText(summary), toLowerCase(f.search))

\* C5: a shaped summary is in the filter's output exactly when the sentiment,
\* the time-horizon and the search predicate all pass (each passes when its
\* filter value is empty), on the API and in the component; with the three
\* values empty the output is the input. A filter that raises has no output.
C5_FilterIsConjunction ==
    /\ DashboardExchange =>
          LET input == Processed
          IN  /\ \A i \in 1..Len(input) :
                    (resp.success /\ Among(input[i], resp.summaries)) <=>
                       /\ SentimentPasses(input[i], req.filters)
                       /\ HorizonPasses(input[i], req.filters)
                       /\ ServerSearchPasses(input[i], req.filters)
              /\ (resp.success /\ req.filters = NoFilters) => resp.summaries = input
    /\ (~loading /\ dashboardData # <<>>) =>
          LET input == dashboardData[1].summaries
              output == filteredSummaries
          IN  /\ \A i \in 1..Len(input) :
                    Among(input[i], output.list) <=>
                       /\ SentimentPasses(input[i], filters)
                       /\ HorizonPasses(input[i], filters)
                       /\ ClientSearchPasses(input[i], filters)
              /\ filters = NoFilters => output.list = input

\* The part of C5 that holds: the same equivalence wherever the filter returned.
C5_ConjunctionWhereFilterReturns ==
    /\ (DashboardExchange /\ resp.success) =>
          LET input == Processed
          IN  \A i \in 1..Len(input) :
                 Among(input[i], resp.summaries) <=>
                    /\ SentimentPasses(input[i], req.filters)
                    /\ HorizonPasses(input[i], req.filters)
                    /\ ServerSearchPasses(input[i], req.filters)
    /\ (~loading /\ dashboardData # <<>>) =>
          LET input == dashboardData[1].summaries
              output == filteredSummaries
          IN  ~output.threw =>
                \A i \in 1..Len(input) :
                   Among(input[i], output.list) <=>
                      /\ SentimentPasses(input[i], filters)
                      /\ HorizonPasses(input[i], filters)
                      /\ ClientSearchPasses(input[i], filters)

AllLists(summary) == \A f \in ArrayFields : IsList(summary.parsed_summary[f])

OnlySearch(f) == f.search # <<>> /\ f.sentiment = <<>> /\ f.timeHorizon = <<>>

\* The text the claim searches: the nine parts, joined by spaces, lowercased.
ClaimedSearchText(summary) ==
    toLowerCase(join(
        << summary.parsed_summary.summary, summary.parsed_summary.investment_implications >>
        \o summary.parsed_summary.companies_mentioned.v
        \o summary.parsed_summary.sectors_affected.v
        \o summary.parsed_summary.key_metrics.v
        \o << summary.source_file, OrEmpty(summary.original_url),
              OrEmpty(summary.article_domain), summary.model_used >>,
        <<" ">>))

ClaimedSearchMatch(summary, term) == includes(ClaimedSearchText(summary), toLowerCase(term))

\* C6: for a search term alone, a summary with list-valued fields is selected
\* exactly when the lowercased term occurs in the claimed text, by the API
\* filter and by the component's filter alike.
C6_SearchSameOnServerAndClient ==
    /\ (DashboardExchange /\ resp.success /\ OnlySearch(req.filters)) =>
          \A i \in 1..Len(Processed) :
             AllLists(Processed[i]) =>
                (Among(Processed[i], resp.summaries)
                    <=> ClaimedSearchMatch(Processed[i], req.filters.search))
    /\ (Rendered /\ OnlySearch(filters)) =>
          \A i \in 1..Len(dashboardData[1].summaries) :
             AllLists(dashboardData[1].summaries[i]) =>
                (Among(dashboardData[1].summaries[i], filteredSummaries.list)
                    <=> ClaimedSearchMatch(dashboardData[1].summaries[i], filters.search))

\* Filtering by f1 and then by f2, with either filter function.
ClientTwice(list, f1, f2) ==
    IF ClientFilter(list, f1).threw THEN Threw
    ELSE ClientFilter(ClientFilter(list, f1).list, f2)

ServerTwice(list, f1, f2) ==
    IF ServerFilter(list, f1).threw THEN Threw
    ELSE ServerFilter(ServerFilter(list, f1).list, f2)

\* Filtering once by the conjunction: callback(x, f1) && callback(x, f2).
ClientBoth(list, f1, f2) ==
    IF \E i \in 1..Len(list) :
          \/ ClientFilterCallback(list[i], f1) = "throw"
          \/ /\ ClientFilterCallback(list[i], f1) = "true"
             /\ ClientFilterCallback(list[i], f2) = "throw"
    THEN Threw
    ELSE Returned(SelectSeq(list, LAMBDA x : KeptByClient(x, f1) /\ KeptByClient(x, f2)))

ServerBoth(list, f1, f2) ==
    IF \E i \in 1..Len(list) :
          \/ ServerFilterCallback(list[i], f1) = "throw"
          \/ /\ ServerFilterCallback(list[i], f1) = "true"
             /\ ServerFilterCallback(list[i], f2) = "throw"
    THEN Threw
    ELSE Returned(SelectSeq(list, LAMBDA x : KeptByServer(x, f1) /\ KeptByServer(x, f2)))

\* C7: for the summaries the component holds, its filter values f1 and every
\* f2: filtering by f1 and then f2, by f2 and then f1, and once by both give
\* the same result, with the component's filter and with the API's.
C7_FilterComposition ==
    dashboardData # <<>> =>
        \A f2 \in FilterParams :
            /\ ClientTwice(dashboardData[1].summaries, filters, f2)
                  = ClientBoth(dashboardData[1].summaries, filters, f2)
            /\ ClientTwice(dashboardData[1].summaries, filters, f2)
                  = ClientTwice(dashboardData[1].summaries, f2, filters)
            /\ ServerTwice(dashboardData[1].summaries, filters, f2)
                  = ServerBoth(dashboardData[1].summaries, filters, f2)
            /\ ServerTwice(dashboardData[1].summaries, filters, f2)
                  = ServerTwice(dashboardData[1].summaries, f2, filters)

RECURSIVE IsSubsequence(_, _)
IsSubsequence(a, b) ==
    IF a = <<>> THEN TRUE
    ELSE IF b = <<>> THEN FALSE
    ELSE IF Head(a) = Head(b) THEN IsSubsequence(Tail(a), Tail(b))
    ELSE IsSubsequence(a, Tail(b))

NewestFirst(list) ==
    \A i \in 1..(Len(list) - 1) : list[i].processed_at >= list[i + 1].processed_at

\* C8: the summaries of a success response are a subsequence of the shaped rows
\* in the order the store returned them and are ordered by processed_at
\* descending; the component's filtered list is a subsequence of the summaries
\* it holds, and so is ordered the same way.
C8_FilterOutputIsOrderedSubsequence ==
    /\ (DashboardExchange /\ resp.success) =>
          /\ IsSubsequence(resp.summaries, Processed)
          /\ NewestFirst(resp.summaries)
    /\ (~loading /\ dashboardData # <<>>) =>
          LET output == filteredSummaries
          IN  ~output.threw =>
                /\ IsSubsequence(output.list, dashboardData[1].summaries)
                /\ NewestFirst(output.list)

\* C8 witness: the component's filter dropped some summaries and kept several,
\* not all processed at the same time.
C8_Witness ==
    /\ Rendered
    /\ Len(filteredSummaries.list) > 2
    /\ Len(filteredSummaries.list) < Len(dashboardData[1].summaries)
    /\ filteredSummaries.list[1].processed_at > filteredSummaries.list[2].processed_at

\* The elements of list at the 0-based indices from .. to-1 (none if to <= from).
Between(list, from, to) == [k \in 1..(to - from) |-> list[from + k]]

\* C9: for the filtered list S and every page p, the page holds the elements of
\* S at the 0-based indices (p-1)*9 .. min(p*9, length)-1, totalPages is
\* ceil(length / 9), and every page beyond totalPages is empty; the page shown
\* is the one for currentPage.
C9_PageIsClampedSlice ==
    (~loading /\ dashboardData # <<>>) =>
        LET output == filteredSummaries
            S == output.list
            pages == totalPages
        IN  ~output.threw =>
              /\ pages * ITEMS_PER_PAGE >= Len(S)
              /\ pages > 0 => (pages - 1) * ITEMS_PER_PAGE < Len(S)
              /\ pages >= 0
              /\ \A p \in 1..MaxPage :
                    /\ PageOf(S, p, ITEMS_PER_PAGE)
                          = Between(S, (p - 1) * ITEMS_PER_PAGE,
                                    Min(p * ITEMS_PER_PAGE, Len(S)))
                    /\ p > pages => PageOf(S, p, ITEMS_PER_PAGE) = <<>>
              /\ paginatedSummaries
                    = Between(S, (currentPage - 1) * ITEMS_PER_PAGE,
                              Min(currentPage * ITEMS_PER_PAGE, Len(S)))

\* C9 witness: the second of two pages is shown and is not full.
C9_Witness ==
    /\ Rendered
    /\ currentPage = 2
    /\ totalPages = 2
    /\ Len(paginatedSummaries) \in 1..(ITEMS_PER_PAGE - 1)

RECURSIVE PagesUpTo(_, _, _)
PagesUpTo(list, lastPage, size) ==
    IF lastPage = 0 THEN <<>>
    ELSE PagesUpTo(list, lastPage - 1, size) \o PageOf(list, lastPage, size)

PageSizes == 1..MaxPageSize \cup {ITEMS_PER_PAGE}

\* C10: for the filtered list S and every page size, the pages 1 .. totalPages
\* concatenated in order are S, and none of them is empty.
C10_PagesPartitionList ==
    (~loading /\ dashboardData # <<>>) =>
        LET output == filteredSummaries
            S == output.list
        IN  ~output.threw =>
              \A size \in PageSizes :
                  LET last == TotalPagesOf(Len(S), size)
                  IN  /\ PagesUpTo(S, last, size) = S
                      /\ \A p \in 1..last : PageOf(S, p, size) # <<>>

\* C10 witness: a filtered list of three pages, the last one not full.
C10_Witness ==
    /\ Rendered
    /\ totalPages = 3
    /\ Len(filteredSummaries.list) % ITEMS_PER_PAGE # 0
    /\ filters # NoFilters

\* C11: from a change of the filter values (a select, the search input or
\* clearFilters) on any page until the next navigation, the page is 1.
C11_FilterChangeResetsPage == pageAtChange # 0 => currentPage = 1

\* C11 witness: the filters were changed while a page after the first was shown.
C11_Witness == pageAtChange > 1 /\ currentPage = 1 /\ filters # NoFilters

\* The stored rows the summaries of a list were shaped from.
RowsOf(list) == SelectSeq(store, LAMBDA row : \E j \in 1..Len(list) : list[j].id = row.id)

\* The mean of the scores present in rows, rounded half up to hundredths; 0 when
\* no score is present.
MeanOfPresentScores(rows) ==
    LET n == Cardinality({ i \in 1..Len(rows) : rows[i].confidence_score # <<>> })
        sum == SumScores(rows)
    IN  IF n = 0 THEN 0
        ELSE CHOOSE m \in 0..100 : 10 * m * n - 5 * n <= sum /\ sum < 10 * m * n + 5 * n

\* The API half of C12: stats.avg_confidence of a success response is the
\* rounded mean of the scores present in the table.
ApiMeanIsOfPresentScores ==
    (DashboardExchange /\ resp.success) =>
        resp.stats.avg_confidence = MeanOfPresentScores(store)

\* C12: avg_confidence is the mean of the scores that are present, rounded to
\* hundredths (0 for no records), in the API stats over the table and in the
\* component's filtered stats, as a whole percentage, over the filtered list.
C12_AvgConfidenceIsMeanOfPresentScores ==
    /\ ApiMeanIsOfPresentScores
    /\ (~loading /\ dashboardData # <<>>) =>
          LET output == filteredSummaries
          IN  ~output.threw =>
                 StatsOfFiltered(output.list).avg_confidence
                    = MeanOfPresentScores(RowsOf(output.list))

Categories == {positive, negative, neutral}

BucketSum(stats) ==
    stats.sentiments.positive + stats.sentiments.negative + stats.sentiments.neutral

Remove(list, i) == [k \in 1..(Len(list) - 1) |-> IF k < i THEN list[k] ELSE list[k + 1]]

\* A sentiment that is NULL / empty or, in any letter case, none of the categories.
Uncategorized(sentiment) ==
    sentiment = Null \/ sentiment = <<>> \/ toLowerCase(sentiment) \notin Categories

\* C13: in the API stats (over the table) and in the component's filtered stats
\* (over the filtered list), taking one record away lowers the three buckets
\* together by at most one, and by nothing when its sentiment is NULL or not a
\* category; the buckets sum to at most total_summaries, and the difference is
\* the number of records whose sentiment is none of 'positive', 'negative',
\* 'neutral' (as stored for the API, lowercased for the component).
C13_SentimentBucketsAreDisjoint ==
    /\ (DashboardExchange /\ resp.success) =>
          /\ resp.stats.total_summaries = Len(store)
          /\ BucketSum(resp.stats) <= resp.stats.total_summaries
          /\ resp.stats.total_summaries - BucketSum(resp.stats)
                = Cardinality({ i \in 1..Len(store) : store[i].sentiment \notin Categories })
          /\ \A i \in 1..Len(store) :
                LET less == BucketSum(resp.stats) - BucketSum(DashboardStats(Remove(store, i)))
                IN  /\ less \in {0, 1}
                    /\ Uncategorized(store[i].sentiment) => less = 0
    /\ (~loading /\ dashboardData # <<>>) =>
          LET output == filteredSummaries
              list == output.list
              stats == StatsOfFiltered(list)
          IN  ~output.threw =>
                /\ stats.total_summaries = Len(list)
                /\ BucketSum(stats) <= stats.total_summaries
                /\ stats.total_summaries - BucketSum(stats)
                      = Cardinality({ i \in 1..Len(list) :
                           toLowerCase(list[i].parsed_summary.sentiment) \notin Categories })
                /\ \A i \in 1..Len(list) :
                      LET less == BucketSum(stats) - BucketSum(StatsOfFiltered(Remove(list, i)))
                      IN  /\ less \in {0, 1}
                          /\ Uncategorized(list[i].parsed_summary.sentiment) => less = 0

\* C13 witness: stats over a table with counted rows in two buckets and at
\* least two rows in none, one of them without a sentiment.
C13_Witness ==
    /\ DashboardExchange /\ resp.success
    /\ resp.stats.sentiments.negative > 0
    /\ resp.stats.sentiments.neutral > 0
    /\ resp.stats.total_summaries - BucketSum(resp.stats) >= 2
    /\ \E i \in 1..Len(store) : store[i].sentiment = Null

\* C14: a success response to the filter sentiment=positive alone returns as
\* many summaries as its stats count in the positive bucket.
C14_StatsAndFilterMatchSentimentAlike ==
    (/\ DashboardExchange
     /\ resp.success
     /\ req.filters = [NoFilters EXCEPT !.sentiment = positive]) =>
        Len(resp.summaries) = resp.stats.sentiments.positive

\* C15: the stats of every success response of a dashboard handler are those of
\* the whole table, whatever the query parameters and whatever data.summaries holds.
C15_StatsReflectWholeStore ==
    (DashboardExchange /\ resp.success) =>
        /\ resp.stats = DashboardStats(store)
        /\ resp.stats.total_summaries = Len(store)

\* C15 witness: a filtered response that returns fewer summaries than its stats count.
C15_Witness ==
    /\ DashboardExchange /\ resp.success
    /\ req.filters # NoFilters
    /\ Len(resp.summaries) > 0
    /\ Len(resp.summaries) < resp.stats.total_summaries
    /\ BucketSum(resp.stats) > 1

\* The two forms of a dashboard response.
SuccessForm(response) ==
    response.status = 200 /\ response.success /\ response.hasData /\ response.error = ""

FailureForm(response) ==
    response.status = 500 /\ ~response.success /\ ~response.hasData /\ response.error # ""

\* C16: every dashboard exchange ends in exactly one of the two forms, and in
\* the failure form whenever a store read failed.
C16_DashboardAnswersInOneOfTwoForms ==
    DashboardExchange =>
        /\ SuccessForm(resp) \/ FailureForm(resp)
        /\ ~(SuccessForm(resp) /\ FailureForm(resp))
        /\ req.failure # "" => FailureForm(resp)

\* C16 witness: a store read failed and the handler answered 500.
C16_Witness == DashboardExchange /\ req.failure # "" /\ resp.status = 500

\* C17: when a store query fails outside 'development', the failure response of
\* a dashboard handler is the one generic body and does not carry the message of
\* the underlying error.
C17_FailureDetailSuppressed ==
    (DashboardExchange /\ req.failure # "" /\ req.nodeEnv # "development") =>
        /\ resp.error # req.failure
        /\ resp = Failure(500, "Internal server error")

\* A lookup by identifier, and whether a record with the identifier exists.
LookupExchange == req.handler \in {"summary", "user"}

RecordExists ==
    IF req.handler = "user" THEN FindUser(req.id) # <<>>
    ELSE \E i \in 1..Len(store) : store[i].id = req.id

\* C18: a lookup the store answered gives 404 exactly when no record has the
\* identifier and a success response when one has; a lookup during which the
\* store failed gives a failure that is not 404.
C18_NotFoundOnlyForAbsentRecord ==
    LookupExchange =>
        /\ req.failure = "" => (resp.status = 404 <=> ~RecordExists)
        /\ (req.failure = "" /\ RecordExists) => resp.success
        /\ req.failure # "" => (~resp.success /\ resp.status # 404)

\* C19: after mount loading becomes false and stays false whatever the outcome
\* of the fetch; dashboardData is only ever the data of a success:true answer;
\* once loading is over without such data the component shows 'No Data
\* Available'.
C19_LoadingEndsOnEveryOutcome ==
    /\ <>[](~loading)
    /\ [][~loading => ~loading']_vars
    /\ [](dashboardData # <<>> =>
             /\ Answered /\ resp.success
             /\ dashboardData[1] = [summaries |-> resp.summaries, stats |-> resp.stats])
    /\ []((~loading /\ ~(Answered /\ resp.success)) => View = "No Data Available")

\* C19 witness: the handler answered success:false and loading is over.
C19_Witness ==
    Answered /\ ~resp.success /\ ~loading /\ View = "No Data Available"

\* The stored row a displayed summary was shaped from.
StoredRowOf(summary) == store[CHOOSE i \in 1..Len(store) : store[i].id = summary.id]

\* The badge the claim expects for a stored score (<<>> is an absent score):
\* none for an absent score or 0; otherwise the percentage nearest to the score
\* and the label of the band the score lies in.
ExpectedBadge(stored, card) ==
    IF stored = <<>> \/ stored = <<0>> THEN ~card.badge
    ELSE LET score == stored[1]
         IN  /\ card.badge
             /\ 10 * card.percent - 5 <= score /\ score < 10 * card.percent + 5
             /\ card.label = "High" <=> score >= 800
             /\ card.label = "Medium" <=> (score >= 600 /\ score < 800)
             /\ card.label = "Low" <=> score < 600
             /\ card.label \in {"High", "Medium", "Low"}

\* C20: every displayed card carries the confidence badge 'round(100*s)% L' for
\* its stored score s with 0 < s <= 1, L being High from 0.8, Medium from 0.6 and
\* Low below, and no confidence badge for a score of 0 or an absent score.
C20_ConfidenceBadge ==
    (~loading /\ dashboardData # <<>>) =>
        LET output == filteredSummaries
        IN  ~output.threw =>
              LET cards == PageOf(output.list, currentPage, ITEMS_PER_PAGE)
              IN  \A i \in 1..Len(cards) :
                     ExpectedBadge(StoredRowOf(cards[i]).confidence_score,
                                   ConfidenceBadge(cards[i]))

\* C20 witness: the displayed page holds a card with score 0.8 badged 80% High,
\* one with 0.82 badged 82% High, one with 0.595 badged 60% Low, and cards with
\* score 0 and with no score, without a badge.
C20_Witness ==
    /\ Rendered
    /\ \E i, j, k, l, n \in 1..Len(paginatedSummaries) :
          /\ StoredRowOf(paginatedSummaries[i]).confidence_score = <<800>>
          /\ ConfidenceBadge(paginatedSummaries[i]).percent = 80
          /\ ConfidenceBadge(paginatedSummaries[i]).label = "High"
          /\ StoredRowOf(paginatedSummaries[j]).confidence_score = <<820>>
          /\ ConfidenceBadge(paginatedSummaries[j]).percent = 82
          /\ ConfidenceBadge(paginatedSummaries[j]).label = "High"
          /\ StoredRowOf(paginatedSummaries[k]).confidence_score = <<595>>
          /\ ConfidenceBadge(paginatedSummaries[k]).percent = 60
          /\ ConfidenceBadge(paginatedSummaries[k]).label = "Low"
          /\ StoredRowOf(paginatedSummaries[l]).confidence_score = <<0>>
          /\ ~ConfidenceBadge(paginatedSummaries[l]).badge
          /\ StoredRowOf(paginatedSummaries[n]).confidence_score = <<>>
          /\ ~ConfidenceBadge(paginatedSummaries[n]).badge

----------------------------------------------------------------------------
(* The database-client module (lib/db) and scripts/migrate.js *)

MaxEvaluations == 3     \* evaluations of the module in one process
MaxTableRows == 2       \* rows per table
MaxResets == 2          \* calls of dbUtils.reset() in one process

\* The dashboard pipeline, not running.
DashboardAtRest ==
    /\ store = <<>>
    /\ InitServer
    /\ InitComponent

\* The two modules: the TypeScript one over the news tables, and the
\* JavaScript one over user and post.
Modules == {"db.ts", "db.js"}

TableNames ==
    {"article_summaries", "collected_urls", "collection_batches", "pipeline_runs",
     "news_sources", "post", "user"}

\* The deleteMany() calls of reset(), in their order.
DeleteOrder(module) ==
    IF module = "db.ts"
    THEN <<"article_summaries", "collected_urls", "collection_batches", "pipeline_runs",
           "news_sources">>
    ELSE <<"post", "user">>

\* The create() calls of seed(), in their order, as rows added per table; the
\* nested create of db.js adds the user and its two posts in one statement.
SeedOrder(module) ==
    IF module = "db.ts"
    THEN << [t \in TableNames |-> IF t = "news_sources" THEN 1 ELSE 0],
            [t \in TableNames |-> IF t = "collection_batches" THEN 1 ELSE 0],
            [t \in TableNames |-> IF t = "collected_urls" THEN 1 ELSE 0] >>
    ELSE << [t \in TableNames |-> IF t = "user" THEN 1 ELSE IF t = "post" THEN 2 ELSE 0] >>

ProcessEnvs == {"production", "development", "test", ""}

Range(seq) == { seq[i] : i \in 1..Len(seq) }

\* A fresh process: nothing on the global object, the module not yet evaluated.
\* prisma and db are client identities, 0 for undefined.
FreshProcess(module, env, tables) ==
    [used |-> TRUE, module |-> module, NODE_ENV |-> env, prisma |-> 0, db |-> 0,
     constructed |-> 0, evaluations |-> 0, tables |-> tables, deletes |-> 0,
     resets |-> 0, thrown |-> "", command |-> "", commandThrew |-> FALSE,
     disconnected |-> FALSE, exited |-> FALSE, exitCode |-> 0]

\* The tables of a module, each empty or with one row; the others stay empty.
TablesOf(module) ==
    { t \in [TableNames -> 0..1] :
         \A name \in TableNames \ Range(DeleteOrder(module)) : t[name] = 0 }

Processes ==
    UNION { { FreshProcess(module, env, tables) :
                 env \in ProcessEnvs, tables \in TablesOf(module) } : module \in Modules }

\* A faulty variant of EvaluateDbModule: a client constructed at every evaluation.
EvaluateDbModuleAnew ==
    /\ process.used /\ ~process.exited
    /\ process.evaluations < MaxEvaluations
    /\ LET db == process.constructed + 1
       IN  process' = [process EXCEPT
                          !.db = db,
                          !.constructed = db,
                          !.prisma = IF process.NODE_ENV # "production" THEN db ELSE @,
                          !.evaluations = @ + 1]
    /\ UNCHANGED <<store, req, resp, dashboardData, loading, filters, currentPage,
                   pageAtChange, hook, stock, reader>>

\* One evaluation of the module (the first import, or a hot reload):
\*   export const db = globalThis.prisma || new PrismaClient()
\*   if (process.env.NODE_ENV !== 'production') globalThis.prisma = db
EvaluateDbModule ==
    /\ process.used /\ ~process.exited
    /\ process.evaluations < MaxEvaluations
    /\ LET db == IF process.prisma # 0 THEN process.prisma ELSE process.constructed + 1
       IN  process' = [process EXCEPT
                          !.db = db,
                          !.constructed = IF process.prisma # 0 THEN @ ELSE @ + 1,
                          !.prisma = IF process.NODE_ENV # "production" THEN db ELSE @,
                          !.evaluations = @ + 1]
    /\ UNCHANGED <<store, req, resp, dashboardData, loading, filters, currentPage,
                   pageAtChange, hook, stock, reader>>

\* What a call of a dbUtils function leaves: whether it threw and with what
\* message, the tables, and the deleteMany() calls issued.
Outcome(threw, thrown, tables, deletes) ==
    [threw |-> threw, thrown |-> thrown, tables |-> tables, deletes |-> deletes]

\* The tables after the first n deleteMany() calls of `order`.
DeleteFirst(tables, order, n) ==
    [t \in TableNames |-> IF \E i \in 1..n : order[i] = t THEN 0 ELSE tables[t]]

\* The deletes of reset(); failAt = k > 0 is the k-th deleteMany() rejecting,
\* caught, logged and rethrown.
resetDeletes(p, failAt) ==
    LET order == DeleteOrder(p.module)
    IN  IF failAt = 0
        THEN Outcome(FALSE, "", DeleteFirst(p.tables, order, Len(order)), Len(order))
        ELSE Outcome(TRUE, "store error", DeleteFirst(p.tables, order, failAt - 1), failAt)

\* A faulty variant of reset: without the test of NODE_ENV.
resetEverywhere(p, failAt) == resetDeletes(p, failAt)

\* dbUtils.reset()
reset(p, failAt) ==
    IF p.NODE_ENV = "production"
    THEN Outcome(TRUE, "Cannot reset database in production", p.tables, 0)
    ELSE resetDeletes(p, failAt)

RECURSIVE AddFirst(_, _, _)
AddFirst(tables, order, n) ==
    IF n = 0 THEN tables
    ELSE LET before == AddFirst(tables, order, n - 1)
         IN  [t \in TableNames |-> before[t] + order[n][t]]

\* dbUtils.seed(); failAt = k > 0 is the k-th create() rejecting.
seed(p, failAt) ==
    LET order == SeedOrder(p.module)
    IN  IF failAt = 0 THEN Outcome(FALSE, "", AddFirst(p.tables, order, Len(order)), 0)
        ELSE Outcome(TRUE, "store error", AddFirst(p.tables, order, failAt - 1), 0)

\* The keys of `commands`.
Commands == {"status", "seed", "reset", "resetAndSeed", "help"}

\* process.argv[2]: a key of commands, another word, or "" when absent.
Arguments == Commands \cup {"", "deploy"}

\* await commands[command](): status and help catch or raise nothing.
RunCommand(p, command, resetFailAt, seedFailAt) ==
    IF command = "reset" THEN reset(p, resetFailAt)
    ELSE IF command = "seed" THEN seed(p, seedFailAt)
    ELSE IF command = "resetAndSeed"
    THEN LET cleared == reset(p, resetFailAt)
         IN  IF cleared.threw THEN cleared
             ELSE LET seeded == seed([p EXCEPT !.tables = cleared.tables], seedFailAt)
                  IN  [seeded EXCEPT !.deletes = cleared.deletes]
    ELSE Outcome(FALSE, "", p.tables, 0)

\* The store failures a run of the script can meet: the k-th deleteMany() or
\* create() of a command that issues them, and a rejection of $disconnect(),
\* which only disconnect() of db.js lets through.
ResetFailures(p, command) ==
    IF command \in {"reset", "resetAndSeed"} THEN 0..Len(DeleteOrder(p.module)) ELSE {0}

SeedFailures(p, command) ==
    IF command \in {"seed", "resetAndSeed"} THEN 0..Len(SeedOrder(p.module)) ELSE {0}

DisconnectFailures(p, command) ==
    IF p.module = "db.js" THEN BOOLEAN ELSE {FALSE}

ResetCalls(command) == IF command \in {"reset", "resetAndSeed"} THEN 1 ELSE 0

Fits(tables) == \A t \in TableNames : tables[t] <= MaxTableRows

ProcessUnchanged ==
    UNCHANGED <<store, req, resp, dashboardData, loading, filters, currentPage,
                pageAtChange, hook, stock, reader>>

\* A call of dbUtils.reset() by the application.
resetCall ==
    /\ process.used /\ ~process.exited /\ process.db # 0
    /\ process.resets < MaxResets
    /\ \E failAt \in 0..Len(DeleteOrder(process.module)) :
         LET out == reset(process, failAt)
         IN  process' = [process EXCEPT
                            !.tables = out.tables,
                            !.deletes = @ + out.deletes,
                            !.resets = @ + 1,
                            !.thrown = out.thrown]
    /\ ProcessUnchanged

\* A call of dbUtils.seed() by the application.
seedCall ==
    /\ process.used /\ ~process.exited /\ process.db # 0
    /\ \E failAt \in 0..Len(SeedOrder(process.module)) :
         LET out == seed(process, failAt)
         IN  /\ Fits(out.tables)
             /\ process' = [process EXCEPT !.tables = out.tables, !.thrown = out.thrown]
    /\ ProcessUnchanged

\* main() of scripts/migrate.js, to the exit of the process:
\*   an unknown command: process.exit(1);
\*   the command threw: the catch block calls process.exit(1), which ends the
\*     process there, before the finally block;
\*   the command completed: the finally block awaits dbUtils.disconnect() and
\*     the process ends when nothing is left to run.  disconnect() of db.ts
\*     catches a rejection of $disconnect; that of db.js lets it through, main()
\*     rejects with no handler, and the exit code is that of the runtime's
\*     unhandled-rejection mode.
main ==
    /\ process.used /\ ~process.exited /\ process.db # 0
    /\ process.resets < MaxResets
    /\ \E argument \in Arguments :
        \E resetFailAt \in ResetFailures(process, argument),
           seedFailAt \in SeedFailures(process, argument),
           disconnectRejects \in DisconnectFailures(process, argument) :
        \E rejectionCode \in (IF disconnectRejects THEN {0, 1} ELSE {0}) :
         LET command == IF argument = "" THEN "help" ELSE argument
         IN  IF command \notin Commands
             THEN process' = [process EXCEPT !.command = command, !.exited = TRUE,
                                             !.exitCode = 1]
             ELSE LET out == RunCommand(process, command, resetFailAt, seedFailAt)
                      ran == [process EXCEPT !.command = command,
                                             !.tables = out.tables,
                                             !.deletes = @ + out.deletes,
                                             !.resets = @ + ResetCalls(command),
                                             !.thrown = out.thrown,
                                             !.commandThrew = out.threw,
                                             !.exited = TRUE]
                  IN  /\ Fits(out.tables)
                      /\ process' =
                            IF out.threw THEN [ran EXCEPT !.exitCode = 1]
                            ELSE [ran EXCEPT
                                     !.disconnected = TRUE,
                                     !.exitCode =
                                        IF disconnectRejects THEN rejectionCode ELSE 0]
    /\ ProcessUnchanged

InitDb ==
    /\ DashboardAtRest
    /\ process \in Processes
    /\ hook = Unused /\ stock = Unused /\ reader = Unused

NextDb ==
    \/ EvaluateDbModule
    \/ resetCall
    \/ seedCall
    \/ main

SpecDb == InitDb /\ [][NextDb]_vars

C30_DisconnectBeforeExit ==
    (process.exited) =>
        /\ process.command \in Commands => process.disconnected
        /\ process.exitCode = 0 <=> (process.command \in Commands /\ ~process.commandThrew)
        /\ process.exitCode \in {0, 1}

----------------------------------------------------------------------------
(* hooks/useStockData.js *)

MaxCalls == 3       \* calls of fetchStockData in one behaviour

initialSymbol == "AAPL"

\* What the user types into the search box, and toUpperCase() of it; trim() of
\* the blank input is the empty string.
TypedSymbols == {"msft", "AAPL", " "}

SymbolToUpperCase(typed) == IF typed = "msft" THEN "MSFT" ELSE typed

Blank(typed) == typed \in {"", " "}

Periods == {"1mo", "1y"}

\* How a call ends: "" is a response with response.ok, the others are the
\* message of the error thrown (data.error of a failure response, or the
\* rejection of fetch).
CallOutcomes == {"", "Stock symbol not found", "Failed to fetch"}

\* data.stock and data.chartData of the response to a request: they depend on
\* the symbol and the period asked for.
StockOf(call) == << [symbol |-> call.symbol] >>
ChartOf(call) == << [symbol |-> call.symbol, period |-> call.period] >>

\* useState initial values; calls are the calls issued so far, inFlight the
\* indexes of those that have not settled, outcomes how the others ended.
InitialHook ==
    [used |-> TRUE, stockData |-> <<>>, chartData |-> <<>>, loading |-> FALSE,
     error |-> "", symbol |-> initialSymbol,
     mounted |-> FALSE, calls |-> <<>>, inFlight |-> {}, outcomes |-> <<>>]

HookUnchanged ==
    UNCHANGED <<store, req, resp, dashboardData, loading, filters, currentPage,
                pageAtChange, process, stock, reader>>

\* fetchStockData up to its first await: setLoading(true), setError(null), and
\* the request is sent.
StartFetch(h, stockSymbol, period) ==
    [h EXCEPT !.loading = TRUE,
              !.error = "",
              !.calls = Append(@, [symbol |-> stockSymbol, period |-> period]),
              !.inFlight = @ \cup {Len(h.calls) + 1},
              !.outcomes = Append(@, "in flight")]

\* useEffect(() => { fetchStockData(initialSymbol) }, ...)
mount ==
    /\ hook.used /\ ~hook.mounted
    /\ hook' = [StartFetch(hook, initialSymbol, "1mo") EXCEPT !.mounted = TRUE]
    /\ HookUnchanged

\* refresh()
refresh ==
    /\ hook.used /\ hook.mounted /\ Len(hook.calls) < MaxCalls
    /\ hook.symbol # ""
    /\ hook' = StartFetch(hook, hook.symbol, "1mo")
    /\ HookUnchanged

\* searchSymbol(newSymbol, period)
searchSymbol(newSymbol, period) ==
    /\ hook.used /\ hook.mounted /\ Len(hook.calls) < MaxCalls
    /\ hook' = IF ~Blank(newSymbol)
               THEN StartFetch(hook, SymbolToUpperCase(newSymbol), period)
               ELSE hook
    /\ HookUnchanged

\* changePeriod(period)
changePeriod(period) ==
    /\ hook.used /\ hook.mounted /\ Len(hook.calls) < MaxCalls
    /\ hook.symbol # ""
    /\ hook' = StartFetch(hook, hook.symbol, period)
    /\ HookUnchanged

\* The rest of fetchStockData for call i, once its fetch has settled: the
\* state writes of the try or of the catch block, then setLoading(false).
settle(i, outcome) ==
    /\ hook.used /\ i \in hook.inFlight
    /\ hook' = IF outcome = ""
               THEN [hook EXCEPT !.stockData = StockOf(hook.calls[i]),
                                 !.chartData = ChartOf(hook.calls[i]),
                                 !.symbol = hook.calls[i].symbol,
                                 !.loading = FALSE,
                                 !.inFlight = @ \ {i},
                                 !.outcomes[i] = "ok"]
               ELSE [hook EXCEPT !.error = outcome,
                                 !.stockData = <<>>,
                                 !.chartData = <<>>,
                                 !.loading = FALSE,
                                 !.inFlight = @ \ {i},
                                 !.outcomes[i] = outcome]
    /\ HookUnchanged

InitHook ==
    /\ DashboardAtRest
    /\ hook = InitialHook
    /\ process = Unused /\ stock = Unused /\ reader = Unused

NextHook ==
    \/ mount
    \/ refresh
    \/ \E newSymbol \in TypedSymbols, period \in Periods : searchSymbol(newSymbol, period)
    \/ \E period \in Periods : changePeriod(period)
    \/ \E i \in 1..MaxCalls, outcome \in CallOutcomes : settle(i, outcome)

SpecHook == InitHook /\ [][NextHook]_vars

\* C23: loading is true whenever a call of fetchStockData is in flight, and
\* false only when none is.
C23_LoadingWhileAnyCallInFlight ==
    hook.loading <=> hook.inFlight # {}

\* C24: once no call is in flight, stockData, chartData, symbol and error are
\* those of the call issued last: its data with no error if it succeeded, its
\* error with no data if it failed.
C24_LastIssuedCallWins ==
    (hook.inFlight = {} /\ hook.calls # <<>>) =>
        LET last == Len(hook.calls)
        IN  IF hook.outcomes[last] = "ok"
            THEN /\ hook.stockData = StockOf(hook.calls[last])
                 /\ hook.chartData = ChartOf(hook.calls[last])
                 /\ hook.symbol = hook.calls[last].symbol
                 /\ hook.error = ""
            ELSE /\ hook.error = hook.outcomes[last]
                 /\ hook.stockData = <<>>
                 /\ hook.chartData = <<>>

----------------------------------------------------------------------------
(* app/api/stock/[symbol]/route.js *)

\* The texts the catch block looks for in error.message.
Text404 == <<"4", "0", "4">>
TextNotFound == <<"N", "o", "t", " ", "F", "o", "u", "n", "d">>
TextRateLimit == <<"r", "a", "t", "e", " ", "l", "i", "m", "i", "t">>
TextThrottle == <<"t", "h", "r", "o", "t", "t", "l", "e">>

\* The ways a provider call fails: what went wrong at the provider, and the
\* message of the error the call rejects with.
ProviderFailures ==
    { [cause |-> "unknown symbol", message |-> <<"H", "T", "T", "P", " ", "4", "0", "4">>],
      [cause |-> "unknown symbol", message |-> <<"N", "o", "t", " ", "F", "o", "u", "n", "d">>],
      [cause |-> "rate limited", message |-> <<"r", "a", "t", "e", " ", "l", "i", "m", "i", "t", " ", "h", "i", "t">>],
      [cause |-> "rate limited", message |-> <<"t", "h", "r", "o", "t", "t", "l", "e", "d">>],
      [cause |-> "rate limited", message |-> <<"r", "a", "t", "e", " ", "l", "i", "m", "i", "t", ";", " ", "4", "0", "4", " ", "s">>],
      [cause |-> "network", message |-> <<"f", "e", "t", "c", "h", " ", "f", "a", "i", "l", "e", "d">>],
      [cause |-> "malformed answer", message |-> <<"J", "S", "O", "N", " ", "p", "o", "s", "i", "t", "i", "o", "n", " ", "4", "0", "4">>] }

\* A provider call that resolved, with a well-formed value.
Resolved == [cause |-> "", message |-> <<>>]

ProviderOutcomes == {Resolved} \cup ProviderFailures

RouteSymbols == {"", "AAPL"}

ProviderCalls == {"quote", "historical", "quoteSummary"}

NoStockExchange ==
    [used |-> TRUE, served |-> FALSE, symbol |-> "", outcomes |-> [c \in ProviderCalls |-> Resolved],
     called |-> {}, caught |-> Resolved,
     response |-> [status |-> 0, stock |-> FALSE, chartData |-> FALSE, companyInfo |-> "absent"]]

\* The response of the catch block to the error caught.
StockFailure(error) ==
    [status |-> IF includes(error.message, Text404) \/ includes(error.message, TextNotFound)
                THEN 404
                ELSE IF includes(error.message, TextRateLimit)
                        \/ includes(error.message, TextThrottle)
                THEN 429
                ELSE 500,
     stock |-> FALSE, chartData |-> FALSE, companyInfo |-> "absent"]

\* The error Promise.all rejects with: that of the member that rejects first;
\* `first` is the one of quote and historical that settles first.
Rejections(members, outcomes, first) ==
    LET failed == { c \in members : outcomes[c] # Resolved }
    IN  IF failed = {} THEN Resolved
        ELSE IF first \in failed THEN outcomes[first]
        ELSE outcomes[CHOOSE c \in failed : TRUE]

\* A faulty variant of Caught: quoteSummary without its .catch().
CaughtAmongAll(outcomes, first) ==
    IF outcomes["quote"] = Resolved /\ outcomes["historical"] = Resolved
    THEN outcomes["quoteSummary"]
    ELSE Rejections({"quote", "historical"}, outcomes, first)

\* The error that reaches the catch block, Resolved when none does: the
\* rejection of quoteSummary is turned into null by its own .catch().
Caught(outcomes, first) == Rejections({"quote", "historical"}, outcomes, first)

\* The responses of GET for a symbol and the outcomes of the provider calls.
StockResponse(symbol, outcomes, first) ==
    IF symbol = ""
    THEN [status |-> 400, stock |-> FALSE, chartData |-> FALSE, companyInfo |-> "absent"]
    ELSE IF Caught(outcomes, first) # Resolved
    THEN StockFailure(Caught(outcomes, first))
    ELSE [status |-> 200, stock |-> TRUE, chartData |-> TRUE,
          companyInfo |-> IF outcomes["quoteSummary"] = Resolved THEN "object" ELSE "null"]

StockUnchanged ==
    UNCHANGED <<store, req, resp, dashboardData, loading, filters, currentPage,
                pageAtChange, process, hook, reader>>

\* GET /api/stock/[symbol]: the three provider calls are issued together,
\* before the await, unless the symbol is empty.
StockGET ==
    /\ stock.used /\ ~stock.served
    /\ \E symbol \in RouteSymbols, outcomes \in [ProviderCalls -> ProviderOutcomes],
          first \in {"quote", "historical"} :
         stock' = [used |-> TRUE, served |-> TRUE, symbol |-> symbol,
                   outcomes |-> outcomes,
                   called |-> IF symbol = "" THEN {} ELSE ProviderCalls,
                   caught |-> IF symbol = "" THEN Resolved ELSE Caught(outcomes, first),
                   response |-> StockResponse(symbol, outcomes, first)]
    /\ StockUnchanged

InitStock ==
    /\ DashboardAtRest
    /\ stock = NoStockExchange
    /\ process = Unused /\ hook = Unused /\ reader = Unused

NextStock == StockGET

SpecStock == InitStock /\ [][NextStock]_vars

Failed(call) == stock.outcomes[call] # Resolved

C28_StatusByMessagePrecedence ==
    stock.served =>
        /\ stock.symbol = "" => (stock.response.status = 400 /\ stock.called = {})
        /\ (stock.symbol # "" /\ stock.caught # Resolved) =>
              LET m == stock.caught.message
                  notFound == includes(m, Text404) \/ includes(m, TextNotFound)
                  limited == includes(m, TextRateLimit) \/ includes(m, TextThrottle)
              IN  /\ notFound => stock.response.status = 404
                  /\ (~notFound /\ limited) => stock.response.status = 429
                  /\ (~notFound /\ ~limited) => stock.response.status = 500
        /\ stock.response.status = 404 => stock.caught.cause = "unknown symbol"

\* The part of C28 that is about the message alone.
C28_PrecedenceOnMessage ==
    stock.served =>
        /\ stock.symbol = "" => (stock.response.status = 400 /\ stock.called = {})
        /\ (stock.symbol # "" /\ stock.caught # Resolved) =>
              LET m == stock.caught.message
                  notFound == includes(m, Text404) \/ includes(m, TextNotFound)
                  limited == includes(m, TextRateLimit) \/ includes(m, TextThrottle)
              IN  /\ notFound => stock.response.status = 404
                  /\ (~notFound /\ limited) => stock.response.status = 429
                  /\ (~notFound /\ ~limited) => stock.response.status = 500

----------------------------------------------------------------------------
(* The pagination controls of the dashboard over long lists *)

MaxPagerItems == 72     \* summaries held by the component (eight pages)

\* Well-formed rows, as many as asked for, newest last.
LongStore(n) ==
    [i \in 1..n |->
        Row(i, i, FALSE, [DefaultText EXCEPT !.source_file = SourceFile(i)],
            DefaultLabels, AllValid)]

\* The component after its fetch was answered by the raw-SQL handler over a
\* store of n rows.
Fetched(n) ==
    LET rows == CHOOSE r \in QuerySummaries(LongStore(n)) : TRUE
        answer == DashboardRawResponse(rows, LongStore(n), NoFilters, "")
    IN  /\ store = LongStore(n)
        /\ resp = answer
        /\ req = Request("dashboard-raw", NoFilters, rows, 0, "", "", answer)
        /\ dashboardData = << [summaries |-> answer.summaries, stats |-> answer.stats] >>
        /\ loading = FALSE
        /\ filters = NoFilters
        /\ currentPage = 1
        /\ pageAtChange = 0

InitPager ==
    /\ \E n \in 0..MaxPagerItems : Fetched(n)
    /\ ElsewhereAtRest

NextPager == \E page \in ClickablePages : goToPage(page)

SpecPager == InitPager /\ [][NextPager]_vars

\* C25: the page shown is between 1 and max(1, totalPages) of the filtered
\* list, and a filtered list that is not empty never shows an empty page.
C25_CurrentPageWithinRange ==
    (~loading /\ dashboardData # <<>>) =>
        LET output == filteredSummaries
            pages == TotalPagesOf(Len(output.list), ITEMS_PER_PAGE)
        IN  ~output.threw =>
              /\ 1 <= currentPage
              /\ currentPage <= (IF pages > 1 THEN pages ELSE 1)
              /\ output.list # <<>> =>
                    PageOf(output.list, currentPage, ITEMS_PER_PAGE) # <<>>

\* C25 witness: the last of three pages is shown under a filter.
C25_Witness ==
    /\ Rendered
    /\ filters # NoFilters
    /\ totalPages = 3 /\ currentPage = 3
    /\ paginatedSummaries # <<>>

SetMin(S) == CHOOSE x \in S : \A y \in S : x <= y
SetMax(S) == CHOOSE x \in S : \A y \in S : y <= x

\* C26: with two pages or more and the current page among them, the page-number
\* buttons are min(5, totalPages) distinct consecutive page numbers within
\* 1..totalPages, the current page among them.
C26_PageButtonsWindow ==
    (Rendered /\ totalPages >= 2 /\ currentPage \in 1..totalPages) =>
        /\ Cardinality(PageButtons) = Min(5, totalPages)
        /\ SetMax(PageButtons) - SetMin(PageButtons) = Cardinality(PageButtons) - 1
        /\ PageButtons \subseteq 1..totalPages
        /\ currentPage \in PageButtons

\* C26 witness: eight pages, the fifth shown: the window is in the middle.
C26_Witness ==
    /\ Rendered /\ totalPages = 8 /\ currentPage = 5
    /\ PageButtons = 3..7

----------------------------------------------------------------------------
(* The store reads of a dashboard GET handler, with other clients writing *)

MaxReaderRows == 3      \* rows the store holds while a handler reads

\* The reads of each handler, in their order: two $queryRaw calls, or findMany,
\* count, groupBy and aggregate; each is awaited before the next is issued.
Reads(handler) ==
    IF handler = "dashboard-raw" THEN <<"summaries", "stats">>
    ELSE <<"findMany", "count", "groupBy", "aggregate">>

\* A handler that has received a request without filters and read nothing yet.
ReaderAt(handler) ==
    [used |-> TRUE, handler |-> handler, done |-> 0, rows |-> <<>>,
     stats |-> NoStats, response |-> NoResponse]

ReaderUnchanged ==
    UNCHANGED <<req, resp, dashboardData, loading, filters, currentPage,
                pageAtChange, process, hook, stock>>

\* What a read adds to what the handler holds, over the store as it is when
\* the read runs.
AfterRead(r, read, rows) ==
    IF read \in {"summaries", "findMany"} THEN [r EXCEPT !.rows = rows]
    ELSE IF read = "stats" THEN [r EXCEPT !.stats = DashboardStats(store)]
    ELSE IF read = "count"
    THEN [r EXCEPT !.stats.total_summaries = DashboardStats(store).total_summaries]
    ELSE IF read = "groupBy"
    THEN [r EXCEPT !.stats.sentiments = DashboardStats(store).sentiments]
    ELSE [r EXCEPT !.stats.avg_confidence = DashboardStats(store).avg_confidence]

\* The response built from what was read, once the last read has returned.
ReaderResponse(r) ==
    LET shaped == IF r.handler = "dashboard-raw" THEN MapFilterRaw(r.rows)
                  ELSE MapFilterOrm(r.rows)
        filtered == ServerFilter(shaped, NoFilters)
    IN  IF filtered.threw THEN Failure(500, "not iterable")
        ELSE Success(filtered.list, r.stats)

\* The next store read of the handler; after the last one the response is sent.
StoreRead ==
    /\ reader.used /\ reader.done < Len(Reads(reader.handler))
    /\ \E rows \in QuerySummaries(store) :
         LET read == Reads(reader.handler)[reader.done + 1]
             after == [AfterRead(reader, read, rows) EXCEPT !.done = @ + 1]
         IN  reader' = IF after.done = Len(Reads(reader.handler))
                       THEN [after EXCEPT !.response = ReaderResponse(after)]
                       ELSE after
    /\ UNCHANGED store
    /\ ReaderUnchanged

\* Another client inserts a record.
OtherClientInserts ==
    /\ reader.used
    /\ Len(store) < MaxReaderRows
    /\ \E id \in 1..MaxReaderRows :
         /\ \A i \in 1..Len(store) : store[i].id < id
         /\ store' = Append(store, LongStore(id)[id])
    /\ UNCHANGED reader
    /\ ReaderUnchanged

\* Another client deletes a record.
OtherClientDeletes ==
    /\ reader.used
    /\ \E i \in 1..Len(store) :
         store' = SubSeq(store, 1, i - 1) \o SubSeq(store, i + 1, Len(store))
    /\ UNCHANGED reader
    /\ ReaderUnchanged

InitReads ==
    /\ \E n \in 0..(MaxReaderRows - 1) : store = LongStore(n)
    /\ InitServer
    /\ InitComponent
    /\ reader \in {ReaderAt("dashboard-raw"), ReaderAt("dashboard-orm")}
    /\ process = Unused /\ hook = Unused /\ stock = Unused

NextReads ==
    \/ StoreRead
    \/ OtherClientInserts
    \/ OtherClientDeletes

SpecReads == InitReads /\ [][NextReads]_vars

\* C29: a success response to a request without filters returns
\* min(200, stats.total_summaries) summaries, whatever other clients insert or
\* delete between the handler's store reads.
C29_SummariesMatchTotal ==
    (reader.used /\ reader.response.success) =>
        Len(reader.response.summaries)
           = Min(QueryLimit, reader.response.stats.total_summaries)

====
